---- MODULE Spec2Model ----
(***************************************************************************)
(* Shader reflection layout merging of rendy (graph/src/reflect.rs).       *)
(*                                                                         *)
(* Every operation of the source is a pure function of its receiver, so    *)
(* the state is the last call made: which operation (op), the arguments    *)
(* it was called with (args) and what it returned (result).  A behaviour   *)
(* is one call on freshly built arguments.                                 *)
(***************************************************************************)
EXTENDS Integers, Sequences, FiniteSets, TLC

VARIABLES op, args, result

vars == <<op, args, result>>

(***************************************************************************)
(* Bounds of the inputs.                                                   *)
(***************************************************************************)
\* descriptor sets per stage description
MaxSets == 3
\* bindings per descriptor set
MaxBindings == 2
\* bindings per stage description, over all its sets
MaxTotalBindings == 3
\* largest binding index
MaxBindingIndex == 1
\* largest element count of a binding handed to compare_bindings
MaxCount == 2
\* push-constant ranges per stage description
MaxPush == 1
\* largest end of a push-constant range
MaxPushEnd == 2
\* input attributes per stage description
MaxAttrs == 1
\* largest attribute location
MaxLocation == 1
\* stage descriptions handed to merge_descriptor_sets
MaxStages == 3
\* largest signedness of a numeric type
MaxSignedness == 2
\* largest component count of a numeric type
MaxComponents == 7
\* largest extent of an array dimension of an interface variable
MaxDim == 3
\* interface variables handed to generate_attributes
MaxVariables == 2
\* largest offset and size of a push-constant block, in 4-byte words
MaxOffsetWords == 4
MaxSizeWords == 4
\* descriptor sets of a reflected module and bindings of one of its sets
MaxReflectSets == 2
MaxReflectBindings == 1

(***************************************************************************)
(* gfx_hal::pso::ShaderStageFlags: a bit set, modelled as the set of the   *)
(* names of its bits; `|` is \cup and `==` is =.                           *)
(***************************************************************************)
VERTEX == {"VERTEX"}
HULL == {"HULL"}
DOMAIN_ == {"DOMAIN"}
GEOMETRY == {"GEOMETRY"}
FRAGMENT == {"FRAGMENT"}
COMPUTE == {"COMPUTE"}

\* the values convert_stage yields for a module with one entry stage
StageFlags == {VERTEX, HULL, DOMAIN_, GEOMETRY, FRAGMENT, COMPUTE}

\* gfx_hal::pso::DescriptorType, the kinds the reflection can produce
DescriptorTypes ==
  {"Sampler", "CombinedImageSampler", "SampledImage", "StorageImage",
   "UniformTexelBuffer", "StorageTexelBuffer", "UniformBuffer", "StorageBuffer",
   "UniformBufferDynamic", "StorageBufferDynamic", "InputAttachment"}

\* the two kinds the merged stage descriptions are drawn from
LayoutTypes == {"UniformBuffer", "StorageBuffer"}

(***************************************************************************)
(* Results: Ok(v) and Err(e) of a Result, the value of a function that     *)
(* returns no Result, a panic, and a call that never returns.              *)
(***************************************************************************)
Ok(v) == [kind |-> "Ok", value |-> v]
Value(v) == [kind |-> "Value", value |-> v]
Diverges == [kind |-> "Diverges"]
Err(e) == [kind |-> "Err", error |-> e]
Panic(m) == [kind |-> "Panic", message |-> m]
None == [kind |-> "None"]

RECURSIVE Concat(_)
\* the concatenation of a sequence of sequences (successive Vec::push calls)
Concat(ss) == IF ss = <<>> THEN <<>> ELSE Head(ss) \o Concat(Tail(ss))

\* the sequences over S of length at most n
SeqsUpTo(S, n) == UNION {[1..k -> S] : k \in 0..n}

(***************************************************************************)
(* compare_bindings                                                        *)
(***************************************************************************)
\* compare_bindings without the comparison of the resource kind
compare_bindings_ignoring_ty(lhv, rhv) ==
  IF /\ lhv.binding = rhv.binding
     /\ lhv.count = rhv.count
     /\ lhv.immutable_samplers = rhv.immutable_samplers
    THEN "Equal"
    ELSE IF lhv.binding = rhv.binding
           THEN "SameBindingNonEqual"
           ELSE "NotEqual"

\* compare_bindings whose second test compares the counts instead of the
\* binding indices
compare_bindings_by_count(lhv, rhv) ==
  IF /\ lhv.binding = rhv.binding
     /\ lhv.count = rhv.count
     /\ lhv.immutable_samplers = rhv.immutable_samplers
     /\ lhv.ty = rhv.ty
    THEN "Equal"
    ELSE IF lhv.count = rhv.count
           THEN "SameBindingNonEqual"
           ELSE "NotEqual"

compare_bindings(lhv, rhv) ==
  IF /\ lhv.binding = rhv.binding
     /\ lhv.count = rhv.count
     /\ lhv.immutable_samplers = rhv.immutable_samplers
     /\ lhv.ty = rhv.ty
    THEN "Equal"
    ELSE IF lhv.binding = rhv.binding
           THEN "SameBindingNonEqual"
           ELSE "NotEqual"

(***************************************************************************)
(* <SpirvShaderDescription as ShaderLayoutGenerator>                       *)
(***************************************************************************)
SingleLayout(self) ==
  Ok([sets |-> [i \in 1..Len(self.descriptor_sets) |->
                   [bindings |-> self.descriptor_sets[i]]],
      push_constants |-> <<>>])

SingleAttributes(self) ==
  <<[i \in 1..Len(self.input_attributes) |-> self.input_attributes[i].element], 0>>

SingleStage(self) == self.stage_flag

(***************************************************************************)
(* <(S, S) as ShaderLayoutGenerator>::layout, on the two layouts           *)
(* self.0.layout()? and self.1.layout()? return.                           *)
(***************************************************************************)
\* lines 135-138: the (descriptor_1, descriptor_2) pairs visited for set n
\* (n counts from 0), in the order the loops visit them
VisitedPairs(n, set_1, second_layout) ==
  Concat([j \in 1..Len(second_layout.sets) |->
    LET set_2 == second_layout.sets[j] IN
    IF n <= Len(set_2.bindings)
      THEN Concat([i \in 1..Len(set_1.bindings) |->
             [k \in 1..Len(set_2.bindings) |->
                <<set_1.bindings[i], set_2.bindings[k]>>]])
      ELSE <<>>])

\* lines 139-157: what one visited pair pushes to out_set
MatchArm(descriptor_1, descriptor_2) ==
  IF compare_bindings(descriptor_1, descriptor_2) = "Equal"
    THEN [descriptor_1 EXCEPT !.stage_flags = FRAGMENT \cup VERTEX]
    ELSE descriptor_1

\* lines 146-153: the first visited pair of set n that is SameBindingNonEqual
FirstConflict(pairs) ==
  LET bad == {p \in 1..Len(pairs) :
                compare_bindings(pairs[p][1], pairs[p][2]) = "SameBindingNonEqual"}
  IN IF bad = {} THEN 0 ELSE CHOOSE p \in bad : \A q \in bad : p <= q

\* lines 163-165: every binding of every set of the first layout
AllBindings(layout) ==
  Concat([i \in 1..Len(layout.sets) |-> layout.sets[i].bindings])

\* lines 132-168: out_set of set n of the first layout (no conflict in it)
OutSet(n, set_1, first_layout, second_layout) ==
  IF second_layout.sets # <<>>
    THEN LET pairs == VisitedPairs(n, set_1, second_layout)
         IN [p \in 1..Len(pairs) |-> MatchArm(pairs[p][1], pairs[p][2])]
    ELSE AllBindings(first_layout)

\* lines 174-183: the second layout's bindings pushed once for every existing
\* set that holds no binding Equal to them
TrailingSet(set_layouts, second_layout) ==
  LET ds == AllBindings(second_layout) IN
  Concat([d \in 1..Len(ds) |->
    Concat([e \in 1..Len(set_layouts) |->
      IF \E v \in 1..Len(set_layouts[e].bindings) :
            compare_bindings(set_layouts[e].bindings[v], ds[d]) = "Equal"
        THEN <<>>
        ELSE <<ds[d]>>])])

MergeLayouts(first_layout, second_layout) ==
  LET sets1 == first_layout.sets
      conflict(i) ==
        IF second_layout.sets # <<>>
          THEN FirstConflict(VisitedPairs(i - 1, sets1[i], second_layout))
          ELSE 0
      failing == {i \in 1..Len(sets1) : conflict(i) # 0}
  IN IF failing # {}
       THEN LET i == CHOOSE x \in failing : \A y \in failing : x <= y
                pairs == VisitedPairs(i - 1, sets1[i], second_layout)
            IN Err([binding |-> pairs[conflict(i)][1].binding, index |-> i - 1])
       ELSE LET set_layouts ==
                  [i \in 1..Len(sets1) |->
                     [bindings |-> OutSet(i - 1, sets1[i], first_layout, second_layout)]]
                out_set == TrailingSet(set_layouts, second_layout)
            IN Ok([sets |-> IF Len(out_set) > 0
                              THEN Append(set_layouts, [bindings |-> out_set])
                              ELSE set_layouts,
                   push_constants |-> <<>>])

\* lines 126-127: the `?` on the two layout() calls
PairLayout(first, second) ==
  LET l1 == SingleLayout(first)
      l2 == SingleLayout(second)
  IN IF l1.kind # "Ok" THEN l1
     ELSE IF l2.kind # "Ok" THEN l2
     ELSE MergeLayouts(l1.value, l2.value)

\* the attributes of a pair that answers with the first stage's attributes
\* when the second stage is the vertex stage
PairAttributesOfFirst(first, second) ==
  IF SingleStage(first) = VERTEX
    THEN Value(SingleAttributes(first))
    ELSE IF SingleStage(second) = VERTEX
           THEN Value(SingleAttributes(first))
           ELSE Panic("No Vertex shader is provided for attributes!")

\* <(S, S) as ShaderLayoutGenerator>::attributes
PairAttributes(first, second) ==
  IF SingleStage(first) = VERTEX
    THEN Value(SingleAttributes(first))
    ELSE IF SingleStage(second) = VERTEX
           THEN Value(SingleAttributes(second))
           ELSE Panic("No Vertex shader is provided for attributes!")

\* <(S, S) as ShaderLayoutGenerator>::stage
PairStage(first, second) == SingleStage(first) \cup SingleStage(second)

\* merge_descriptor_sets: layouts.next().unwrap().layout()
merge_descriptor_sets(layouts) ==
  IF layouts = <<>>
    THEN Panic("called Option::unwrap() on a None value")
    ELSE SingleLayout(Head(layouts))

\* ShaderLayoutGeneratorIterMerge::merge_layout: the loop tests the next
\* bound before it, which the let inside the loop shadows and never
\* changes, so the loop is skipped when the iterator is empty and never left
\* otherwise
merge_layout(shaders) ==
  IF shaders = <<>> THEN Err("asdf") ELSE Diverges

(***************************************************************************)
(* type_element_format (shader/src/reflect.rs).  ReflectTypeFlags is a bit *)
(* set, modelled as the set of the names of its bits; a format is the name *)
(* of its gfx_hal::format::Format variant.                                 *)
(***************************************************************************)
\* lines 46-61: the numeric type, or the error the function bails with
NumTy(flags, traits) ==
  IF "INT" \in flags
    THEN IF traits.numeric.scalar.signedness = 0 THEN Ok("UInt")
         ELSE IF traits.numeric.scalar.signedness = 1 THEN Ok("SInt")
         ELSE Err("Unrecognized numeric signedness")
    ELSE IF "FLOAT" \in flags
           THEN Ok("Float")
           ELSE Err("Unrecognized numeric type with flags")

\* lines 64-73: (num_ty, width, format)
ScalarFormats ==
  {<<"SInt", 8, "R8Int">>, <<"SInt", 16, "R16Int">>,
   <<"SInt", 32, "R32Int">>, <<"SInt", 64, "R64Int">>,
   <<"UInt", 8, "R8Uint">>, <<"UInt", 16, "R16Uint">>,
   <<"UInt", 32, "R32Uint">>, <<"UInt", 64, "R64Uint">>,
   <<"Float", 32, "R32Float">>, <<"Float", 64, "R64Float">>}

\* lines 85-114 with the arm of R32Float and 4 components giving Rgb32Float
VectorFormatsWithShortArm ==
  {<<"R8Int", 2, "Rg8Int">>, <<"R8Int", 3, "Rgb8Int">>, <<"R8Int", 4, "Rgba8Int">>,
   <<"R16Int", 2, "Rg16Int">>, <<"R16Int", 3, "Rgb16Int">>, <<"R16Int", 4, "Rgba16Int">>,
   <<"R32Int", 2, "Rg32Int">>, <<"R32Int", 3, "Rgb32Int">>, <<"R32Int", 4, "Rgba32Int">>,
   <<"R64Int", 2, "Rg64Int">>, <<"R64Int", 3, "Rgb64Int">>, <<"R64Int", 4, "Rgba64Int">>,
   <<"R8Uint", 2, "Rg8Uint">>, <<"R8Uint", 3, "Rgb8Uint">>, <<"R8Uint", 4, "Rgba8Uint">>,
   <<"R16Uint", 2, "Rg16Uint">>, <<"R16Uint", 3, "Rgb16Uint">>, <<"R16Uint", 4, "Rgba16Uint">>,
   <<"R32Uint", 2, "Rg32Uint">>, <<"R32Uint", 3, "Rgb32Uint">>, <<"R32Uint", 4, "Rgba32Uint">>,
   <<"R64Uint", 2, "Rg64Uint">>, <<"R64Uint", 3, "Rgb64Uint">>, <<"R64Uint", 4, "Rgba64Uint">>,
   <<"R32Float", 2, "Rg32Float">>, <<"R32Float", 3, "Rgb32Float">>, <<"R32Float", 4, "Rgb32Float">>,
   <<"R64Float", 2, "Rg64Float">>, <<"R64Float", 3, "Rgb64Float">>, <<"R64Float", 4, "Rgba64Float">>}

\* lines 85-114: (current_type, component_count, format)
VectorFormats ==
  {<<"R8Int", 2, "Rg8Int">>, <<"R8Int", 3, "Rgb8Int">>, <<"R8Int", 4, "Rgba8Int">>,
   <<"R16Int", 2, "Rg16Int">>, <<"R16Int", 3, "Rgb16Int">>, <<"R16Int", 4, "Rgba16Int">>,
   <<"R32Int", 2, "Rg32Int">>, <<"R32Int", 3, "Rgb32Int">>, <<"R32Int", 4, "Rgba32Int">>,
   <<"R64Int", 2, "Rg64Int">>, <<"R64Int", 3, "Rgb64Int">>, <<"R64Int", 4, "Rgba64Int">>,
   <<"R8Uint", 2, "Rg8Uint">>, <<"R8Uint", 3, "Rgb8Uint">>, <<"R8Uint", 4, "Rgba8Uint">>,
   <<"R16Uint", 2, "Rg16Uint">>, <<"R16Uint", 3, "Rgb16Uint">>, <<"R16Uint", 4, "Rgba16Uint">>,
   <<"R32Uint", 2, "Rg32Uint">>, <<"R32Uint", 3, "Rgb32Uint">>, <<"R32Uint", 4, "Rgba32Uint">>,
   <<"R64Uint", 2, "Rg64Uint">>, <<"R64Uint", 3, "Rgb64Uint">>, <<"R64Uint", 4, "Rgba64Uint">>,
   <<"R32Float", 2, "Rg32Float">>, <<"R32Float", 3, "Rgb32Float">>, <<"R32Float", 4, "Rgba32Float">>,
   <<"R64Float", 2, "Rg64Float">>, <<"R64Float", 3, "Rgb64Float">>, <<"R64Float", 4, "Rgba64Float">>}

\* a match over a table of (key, key, value) arms: the value of the arm whose
\* keys are k1 and k2, or the error of the `_` arm
MatchTable(table, k1, k2, error) ==
  LET arms == {arm \in table : arm[1] = k1 /\ arm[2] = k2}
  IN IF arms = {} THEN Err(error) ELSE Ok((CHOOSE arm \in arms : TRUE)[3])

type_element_format(flags, traits) ==
  LET num_ty == NumTy(flags, traits) IN
  IF num_ty.kind # "Ok" THEN num_ty
  ELSE
    LET current_type == MatchTable(ScalarFormats, num_ty.value,
                                   traits.numeric.scalar.width,
                                   "Unrecognized numeric type with width")
    IN IF current_type.kind # "Ok" THEN current_type
       ELSE IF traits.numeric.vector.component_count > 1
              THEN MatchTable(VectorFormats, current_type.value,
                              traits.numeric.vector.component_count,
                              "Unrecognized numeric array with component count")
              ELSE current_type

(***************************************************************************)
(* The attribute builder (shader/src/reflect.rs).  A variable without      *)
(* type description has type_description = NoType.                         *)
(***************************************************************************)
NoType == [kind |-> "None"]

\* <ReflectTypeDescription as ReflectInto<Element<Format>>>::reflect_into
ReflectElement(type_description) ==
  LET format == type_element_format(type_description.type_flags,
                                    type_description.traits)
  IN IF format.kind # "Ok" THEN format
     ELSE Ok([format |-> format.value, offset |-> 0])

\* <ReflectInterfaceVariable as ReflectInto<AttributeDesc>>::reflect_into
ReflectAttribute(variable) ==
  IF variable.type_description = NoType
    THEN Err("Unable to reflect vertex element")
    ELSE LET element == ReflectElement(variable.type_description)
         IN IF element.kind # "Ok" THEN element
            ELSE Ok([location |-> variable.location,
                     binding |-> variable.location,
                     element |-> element.value])

\* lines 266-274 with every clone left at the declared location
PushedAttributesUnmoved(attribute, reflected) ==
  IF attribute.array.dims = <<>>
    THEN <<reflected>>
    ELSE [n \in 1..attribute.array.dims[1] |-> reflected]

\* lines 266-274: what one reflected variable pushes to out_attributes
PushedAttributes(attribute, reflected) ==
  IF attribute.array.dims = <<>>
    THEN <<reflected>>
    ELSE [n \in 1..attribute.array.dims[1] |->
            [reflected EXCEPT !.location = reflected.location + (n - 1)]]

generate_attributes(attributes) ==
  LET reflected == [i \in 1..Len(attributes) |-> ReflectAttribute(attributes[i])]
      failed == {i \in 1..Len(attributes) : reflected[i].kind # "Ok"}
  IN IF failed # {}
       THEN reflected[CHOOSE i \in failed : \A j \in failed : i <= j]
       ELSE Ok(Concat([i \in 1..Len(attributes) |->
                         PushedAttributes(attributes[i], reflected[i].value)]))

\* convert_push_constant: the range runs from variable.offset to
\* variable.offset / 4 + variable.size / 4 (u32 division truncates)
convert_push_constant(stage, variable) ==
  Ok(<<stage, [start |-> variable.offset,
               end |-> (variable.offset \div 4) + (variable.size \div 4)]>>)

(***************************************************************************)
(* SpirvShaderDescription::from_bytes (shader/src/reflect.rs).  The module *)
(* that ShaderModule::load_u8_data decodes from the bytes is a record:     *)
(* loads tells whether decoding succeeds, and each enumeration is the      *)
(* Ok(sequence) or Err the module answers with.  The spirv field of the    *)
(* description, a copy of the bytes, is left out.                          *)
(***************************************************************************)
\* <ReflectDescriptorType as ReflectInto<DescriptorType>>::reflect_into
ReflectDescriptorType(descriptor_type) ==
  CASE descriptor_type \in DescriptorTypes -> Ok(descriptor_type)
    [] descriptor_type = "AccelerationStructureNV" ->
         Err("We cant handle AccelerationStructureNV descriptor type")
    [] descriptor_type = "Undefined" ->
         Err("We cant handle undefined descriptor types")

\* <ReflectDescriptorBinding as ReflectInto<DescriptorSetLayoutBinding>>
ReflectBinding(desc) ==
  LET ty == ReflectDescriptorType(desc.descriptor_type)
  IN IF ty.kind # "Ok" THEN ty
     ELSE Ok([binding |-> desc.binding, ty |-> ty.value, count |-> desc.count,
              stage_flags |-> VERTEX, immutable_samplers |-> FALSE])

\* collect::<Result<Vec<_>, _>>(): the values, or the first error
Collect(results) ==
  LET failed == {i \in 1..Len(results) : results[i].kind # "Ok"}
  IN IF failed # {}
       THEN results[CHOOSE i \in failed : \A j \in failed : i <= j]
       ELSE Ok([i \in 1..Len(results) |-> results[i].value])

\* <ReflectDescriptorSet as ReflectInto<Vec<DescriptorSetLayoutBinding>>>
ReflectSet(set) ==
  Collect([i \in 1..Len(set.bindings) |-> ReflectBinding(set.bindings[i])])

convert_stage(stage) ==
  UNION {IF "VERTEX" \in stage THEN VERTEX ELSE {},
         IF "FRAGMENT" \in stage THEN FRAGMENT ELSE {},
         IF "GEOMETRY" \in stage THEN GEOMETRY ELSE {},
         IF "COMPUTE" \in stage THEN COMPUTE ELSE {},
         IF "TESSELLATION_CONTROL" \in stage THEN HULL ELSE {},
         IF "TESSELLATION_EVALUATION" \in stage THEN DOMAIN_ ELSE {}}

\* from_bytes without the fixup step: the bindings keep the stage mask the
\* per-binding conversion gave them
FixupSkipped(descriptor_sets, stage_flag) == descriptor_sets

\* lines 331-334: every binding of every set gets the stage of the module
Fixup(descriptor_sets, stage_flag) ==
  [i \in 1..Len(descriptor_sets) |->
     [j \in 1..Len(descriptor_sets[i]) |->
        [descriptor_sets[i][j] EXCEPT !.stage_flags = stage_flag]]]

from_bytes(module) ==
  IF ~module.loads THEN Err("Failed to reflect data") ELSE
  LET stage_flag == convert_stage(module.shader_stage)
      \* both attribute lists are built from enumerate_input_variables
      enumerated_inputs == module.input_variables
      enumerated_outputs == module.input_variables
      enumerated_sets == module.descriptor_sets
      enumerated_blocks == module.push_constant_blocks
  IN
  IF enumerated_inputs.kind # "Ok"
    THEN Err("Failed to get input attributes from spirv-reflect") ELSE
  IF enumerated_outputs.kind # "Ok"
    THEN Err("Failed to get output attributes from spirv-reflect") ELSE
  IF enumerated_sets.kind # "Ok"
    THEN Err("Failed to get descriptor sets from spirv-reflect") ELSE
  LET input_attributes == generate_attributes(enumerated_inputs.value)
      output_attributes == generate_attributes(enumerated_outputs.value)
      descriptor_sets ==
        Collect([i \in 1..Len(enumerated_sets.value) |->
                   ReflectSet(enumerated_sets.value[i])])
  IN
  IF descriptor_sets.kind # "Ok"
    THEN Err("Failed to parse descriptor sets") ELSE
  IF enumerated_blocks.kind # "Ok"
    THEN Err("Failed to get push constants from spirv-reflect") ELSE
  LET push_constants ==
        Collect([i \in 1..Len(enumerated_blocks.value) |->
                   convert_push_constant(stage_flag, enumerated_blocks.value[i])])
  IN
  IF input_attributes.kind # "Ok"
    THEN Err("Error parsing input attributes") ELSE
  IF output_attributes.kind # "Ok"
    THEN Err("Error parsing output attributes") ELSE
  IF push_constants.kind # "Ok"
    THEN Err("Error parsing push constants") ELSE
  Ok([input_attributes |-> input_attributes.value,
      output_attributes |-> output_attributes.value,
      descriptor_sets |-> Fixup(descriptor_sets.value, stage_flag),
      push_constants |-> push_constants.value,
      stage_flag |-> stage_flag])

(***************************************************************************)
(* The stage descriptions the operations are called with.                  *)
(***************************************************************************)
BindingsOf(stage) ==
  [binding : 0..MaxBindingIndex, ty : LayoutTypes, count : {1},
   stage_flags : {stage}, immutable_samplers : {FALSE}]

\* a reflected set holds a binding index once
SetsOf(stage, maxBindings) ==
  {s \in SeqsUpTo(BindingsOf(stage), maxBindings) :
     \A i, j \in 1..Len(s) : i # j => s[i].binding # s[j].binding}

PushConstantsOf(stage) ==
  SeqsUpTo({<<stage, [start |-> 0, end |-> e]>> : e \in 1..MaxPushEnd}, MaxPush)

\* the number of bindings of a sequence of sets
TotalBindings(sets) == Len(Concat(sets))

\* descriptions that vary in their descriptor sets
StructDescriptions(stage) ==
  [descriptor_sets : {sets \in SeqsUpTo(SetsOf(stage, MaxBindings), MaxSets) :
                        TotalBindings(sets) <= MaxTotalBindings},
   stage_flag : {stage}, push_constants : {<<>>}, input_attributes : {<<>>}]

\* descriptions that vary in their stage and push constants
StageDescriptions ==
  UNION {[descriptor_sets : SeqsUpTo(SetsOf(stage, 1), 1),
          stage_flag : {stage}, push_constants : PushConstantsOf(stage),
          input_attributes : {<<>>}] : stage \in StageFlags}

\* the formats the input attributes are drawn from
AttributeFormats == {"R32Float", "Rgb32Float"}

\* gfx_hal::pso::AttributeDesc as the reflection builds it
AttributeDescs ==
  {[location |-> l, binding |-> l, element |-> [format |-> f, offset |-> 0]] :
     l \in 0..MaxLocation, f \in AttributeFormats}

\* descriptions that vary in their stage and input attributes
AttributeDescriptions ==
  [descriptor_sets : {<<>>}, stage_flag : StageFlags, push_constants : {<<>>},
   input_attributes : SeqsUpTo(AttributeDescs, MaxAttrs)]

\* the stages of the descriptions handed to merge_descriptor_sets
SequenceStages == {VERTEX, GEOMETRY, FRAGMENT}

\* the descriptions handed to merge_descriptor_sets
SequenceDescriptions ==
  UNION {[descriptor_sets : SeqsUpTo(SetsOf(stage, 1), 1),
          stage_flag : {stage}, push_constants : {<<>>},
          input_attributes : {<<>>}] : stage \in SequenceStages}

\* the bindings handed to compare_bindings
ComparedBindings ==
  [binding : 0..MaxBindingIndex, ty : DescriptorTypes, count : 1..MaxCount,
   stage_flags : {VERTEX, FRAGMENT}, immutable_samplers : BOOLEAN]

\* the bits of ReflectTypeFlags the types are drawn from
TypeFlagBits == {"INT", "FLOAT", "VECTOR"}

\* the bit widths the types are drawn from
Widths == {1, 8, 16, 24, 32, 64, 128}

\* ReflectTypeDescriptionTraits
Traits ==
  [numeric : [scalar : [signedness : 0..MaxSignedness, width : Widths],
              vector : [component_count : 0..MaxComponents]]]

\* the type descriptions of the interface variables: none, a 3-component
\* 32-bit float and a 16-bit float, which has no format
VariableTypes ==
  {NoType,
   [type_flags |-> {"FLOAT", "VECTOR"},
    traits |-> [numeric |-> [scalar |-> [signedness |-> 0, width |-> 32],
                             vector |-> [component_count |-> 3]]]],
   [type_flags |-> {"FLOAT"},
    traits |-> [numeric |-> [scalar |-> [signedness |-> 0, width |-> 16],
                             vector |-> [component_count |-> 0]]]]}

\* the array dimensions of the interface variables: none, one or two
ArrayDims ==
  {<<>>} \cup {<<d>> : d \in 0..MaxDim} \cup {<<d, 2>> : d \in 0..MaxDim}

\* ReflectInterfaceVariable
InterfaceVariables ==
  [location : 0..MaxLocation, array : [dims : ArrayDims],
   type_description : VariableTypes]

\* ReflectBlockVariable: a push-constant block, with offset and size in
\* bytes, word-aligned and not empty
BlockVariables ==
  [offset : {4 * k : k \in 0..MaxOffsetWords},
   size : {4 * k : k \in 1..MaxSizeWords}]

\* ReflectShaderStageFlags of a module: one stage, none, or two at once
ReflectStages ==
  {{"VERTEX"}, {"TESSELLATION_CONTROL"}, {"TESSELLATION_EVALUATION"},
   {"GEOMETRY"}, {"FRAGMENT"}, {"COMPUTE"}, {}, {"VERTEX", "FRAGMENT"}}

\* ReflectDescriptorType
ReflectDescriptorTypes == DescriptorTypes \cup {"AccelerationStructureNV", "Undefined"}

\* ReflectDescriptorBinding of the kind UniformBuffer or Undefined
ReflectBindings ==
  [binding : 0..MaxBindingIndex, descriptor_type : {"UniformBuffer", "Undefined"},
   count : {1}]

\* ReflectDescriptorSet; a set holds a binding index once
ReflectSets ==
  [bindings : {s \in SeqsUpTo(ReflectBindings, MaxReflectBindings) :
                 \A i, j \in 1..Len(s) : i # j => s[i].binding # s[j].binding}]

\* what an enumeration of the module answers: the items or an error
Enumerated(items) == {Ok(i) : i \in items} \cup {Err("spirv-reflect")}

\* a module without variables, sets and push-constant blocks
EmptyModule ==
  [loads |-> TRUE, shader_stage |-> {"VERTEX"},
   input_variables |-> Ok(<<>>), output_variables |-> Ok(<<>>),
   descriptor_sets |-> Ok(<<>>), push_constant_blocks |-> Ok(<<>>)]

(***************************************************************************)
(* The calls.                                                              *)
(***************************************************************************)
Init ==
  /\ op = "none"
  /\ args = <<>>
  /\ result = None

\* (first, second).layout() on a vertex and a fragment stage
Layout ==
  /\ op = "none"
  /\ \E first \in StructDescriptions(VERTEX), second \in StructDescriptions(FRAGMENT) :
    /\ op' = "layout"
    /\ args' = <<first, second>>
    /\ result' = PairLayout(first, second)

\* (first, second).layout() on two stages of any kind
LayoutStages ==
  /\ op = "none"
  /\ \E first \in StageDescriptions, second \in StageDescriptions :
    /\ op' = "layout"
    /\ args' = <<first, second>>
    /\ result' = PairLayout(first, second)

\* self.layout() on one stage description
DescriptionLayout ==
  /\ op = "none"
  /\ \E self \in StageDescriptions :
    /\ op' = "description_layout"
    /\ args' = <<self>>
    /\ result' = SingleLayout(self)

Next == Layout \/ LayoutStages \/ DescriptionLayout

Spec == Init /\ [][Next]_vars

\* (first, second).attributes()
Attributes ==
  /\ op = "none"
  /\ \E first \in AttributeDescriptions, second \in AttributeDescriptions :
    /\ op' = "attributes"
    /\ args' = <<first, second>>
    /\ result' = PairAttributes(first, second)

\* (first, second).stage()
Stage ==
  /\ op = "none"
  /\ \E first \in AttributeDescriptions, second \in AttributeDescriptions :
    /\ op' = "stage"
    /\ args' = <<first, second>>
    /\ result' = Value(PairStage(first, second))

NextAttributes == Attributes \/ Stage

SpecAttributes == Init /\ [][NextAttributes]_vars

\* merge_descriptor_sets(layouts)
MergeDescriptorSets ==
  /\ op = "none"
  /\ \E layouts \in SeqsUpTo(SequenceDescriptions, MaxStages) :
    /\ op' = "merge_descriptor_sets"
    /\ args' = layouts
    /\ result' = merge_descriptor_sets(layouts)

\* shaders.merge_layout()
MergeLayout ==
  /\ op = "none"
  /\ \E shaders \in SeqsUpTo(SequenceDescriptions, MaxStages) :
    /\ op' = "merge_layout"
    /\ args' = shaders
    /\ result' = merge_layout(shaders)

NextSequence == MergeDescriptorSets \/ MergeLayout

SpecSequence == Init /\ [][NextSequence]_vars

\* compare_bindings(lhv, rhv)
CompareBindings ==
  /\ op = "none"
  /\ \E lhv \in ComparedBindings, rhv \in ComparedBindings :
    /\ op' = "compare_bindings"
    /\ args' = <<lhv, rhv>>
    /\ result' = Value(compare_bindings(lhv, rhv))

NextCompare == CompareBindings

SpecCompare == Init /\ [][NextCompare]_vars

\* type_element_format(flags, traits)
TypeElementFormat ==
  /\ op = "none"
  /\ \E flags \in SUBSET TypeFlagBits, traits \in Traits :
    /\ op' = "type_element_format"
    /\ args' = <<flags, traits>>
    /\ result' = type_element_format(flags, traits)

NextFormat == TypeElementFormat

SpecFormat == Init /\ [][NextFormat]_vars

\* generate_attributes(attributes)
GenerateAttributes ==
  /\ op = "none"
  /\ \E attributes \in SeqsUpTo(InterfaceVariables, MaxVariables) :
    /\ op' = "generate_attributes"
    /\ args' = <<attributes>>
    /\ result' = generate_attributes(attributes)

NextGenerate == GenerateAttributes

SpecGenerate == Init /\ [][NextGenerate]_vars

\* convert_push_constant(stage, variable)
ConvertPushConstant ==
  /\ op = "none"
  /\ \E stage \in StageFlags, variable \in BlockVariables :
    /\ op' = "convert_push_constant"
    /\ args' = <<stage, variable>>
    /\ result' = convert_push_constant(stage, variable)

NextPush == ConvertPushConstant

SpecPush == Init /\ [][NextPush]_vars

\* SpirvShaderDescription::from_bytes(data), data decoding to module
FromBytes(module) ==
  /\ op' = "from_bytes"
  /\ args' = <<module>>
  /\ result' = from_bytes(module)

\* modules that vary in their stage and descriptor sets
FromBytesSets ==
  /\ op = "none"
  /\ \E stage \in ReflectStages,
        sets \in Enumerated(SeqsUpTo(ReflectSets, MaxReflectSets)) :
       FromBytes([EmptyModule EXCEPT !.shader_stage = stage,
                                     !.descriptor_sets = sets])

\* modules with one binding of each descriptor type and count
FromBytesTypes ==
  /\ op = "none"
  /\ \E ty \in ReflectDescriptorTypes, c \in 0..MaxCount :
       FromBytes([EmptyModule EXCEPT
         !.shader_stage = {"FRAGMENT"},
         !.descriptor_sets =
            Ok(<<[bindings |->
                    <<[binding |-> 0, descriptor_type |-> ty, count |-> c]>>]>>)])

\* modules that vary in their input and output variables
FromBytesVariables ==
  /\ op = "none"
  /\ \E inputs \in Enumerated(SeqsUpTo(InterfaceVariables, 1)),
        outputs \in Enumerated(SeqsUpTo(InterfaceVariables, 1)) :
       FromBytes([EmptyModule EXCEPT !.input_variables = inputs,
                                     !.output_variables = outputs])

\* modules that vary in their stage and push-constant blocks
FromBytesBlocks ==
  /\ op = "none"
  /\ \E stage \in ReflectStages,
        blocks \in Enumerated(SeqsUpTo(BlockVariables, 1)) :
       FromBytes([EmptyModule EXCEPT !.shader_stage = stage,
                                     !.push_constant_blocks = blocks])

\* bytes that do not decode to a module
FromBytesBroken ==
  /\ op = "none"
  /\ FromBytes([EmptyModule EXCEPT !.loads = FALSE])

NextReflect ==
  \/ FromBytesSets
  \/ FromBytesTypes
  \/ FromBytesVariables
  \/ FromBytesBlocks
  \/ FromBytesBroken

SpecReflect == Init /\ [][NextReflect]_vars

(***************************************************************************)
(* Vocabulary of the properties.                                           *)
(***************************************************************************)
\* a successful (first, second).layout() call
Merged == op = "layout" /\ result.kind = "Ok"

\* the two bindings agree on index, kind, count and immutable-sampler flag
Identical(a, b) ==
  /\ a.binding = b.binding
  /\ a.ty = b.ty
  /\ a.count = b.count
  /\ a.immutable_samplers = b.immutable_samplers

\* the two bindings share an index and differ in kind, count or flag
Conflicting(a, b) == a.binding = b.binding /\ ~Identical(a, b)

\* the set indices (from 1) both stage descriptions have
SharedSets == 1..(IF Len(args[1].descriptor_sets) <= Len(args[2].descriptor_sets)
                    THEN Len(args[1].descriptor_sets)
                    ELSE Len(args[2].descriptor_sets))

\* the positions of a sequence of bindings that hold a binding identical to b
Copies(bindings, b) == {i \in 1..Len(bindings) : Identical(bindings[i], b)}

\* every binding of the merged layout, in order
MergedBindings == Concat([i \in 1..Len(result.value.sets) |-> result.value.sets[i].bindings])

\* the (set index from 1, position in the first stage's set) of the bindings
\* that appear identically at the same set index in both stages
SharedBindings ==
  {x \in SharedSets \X (1..MaxBindings) :
     /\ x[2] <= Len(args[1].descriptor_sets[x[1]])
     /\ Copies(args[2].descriptor_sets[x[1]], args[1].descriptor_sets[x[1]][x[2]]) # {}}

(***************************************************************************)
(* C1: when the two stages share bindings, each binding that appears       *)
(* identically at the same set index in both stages appears exactly once   *)
(* in that set of the merged layout, and no set of the merged layout       *)
(* holds a binding twice.                                                  *)
(***************************************************************************)
C1_SharedBindingOnce ==
  (Merged /\ SharedBindings # {}) =>
    /\ \A x \in SharedBindings :
         /\ x[1] <= Len(result.value.sets)
         /\ Cardinality(Copies(result.value.sets[x[1]].bindings,
                               args[1].descriptor_sets[x[1]][x[2]])) = 1
    /\ \A s \in 1..Len(result.value.sets) :
         \A i, k \in 1..Len(result.value.sets[s].bindings) :
           Identical(result.value.sets[s].bindings[i], result.value.sets[s].bindings[k])
             => i = k

\* the pairs the merge compares for set s (from 1) of the first stage and
\* classifies as Equal
ClassifiedEqual(s) ==
  LET pairs == VisitedPairs(s - 1, [bindings |-> args[1].descriptor_sets[s]],
                            SingleLayout(args[2]).value)
  IN {pairs[p] : p \in {q \in 1..Len(pairs) :
                          compare_bindings(pairs[q][1], pairs[q][2]) = "Equal"}}

(***************************************************************************)
(* C2: for every pair of bindings the merge classifies as Equal, the copy  *)
(* kept in the merged set has the union of the two bindings' stage masks,  *)
(* whatever the two stages are.                                            *)
(***************************************************************************)
C2_EqualStageUnion ==
  Merged =>
    \A s \in 1..Len(args[1].descriptor_sets) :
      \A pair \in ClassifiedEqual(s) :
        \E m \in Copies(result.value.sets[s].bindings, pair[1]) :
          result.value.sets[s].bindings[m].stage_flags
            = pair[1].stage_flags \cup pair[2].stage_flags

\* the (set index from 0, binding index) of the conflicts at one set index
SameSetConflicts ==
  {<<s - 1, args[1].descriptor_sets[s][i].binding>> :
     <<s, i>> \in {x \in SharedSets \X (1..MaxBindings) :
                    /\ x[2] <= Len(args[1].descriptor_sets[x[1]])
                    /\ \E k \in 1..Len(args[2].descriptor_sets[x[1]]) :
                         Conflicting(args[1].descriptor_sets[x[1]][x[2]],
                                     args[2].descriptor_sets[x[1]][k])}}

(***************************************************************************)
(* C3: when the two stages hold conflicting bindings at a set index, the   *)
(* merge returns no layout but a conflict error that names such a set      *)
(* index and binding index.                                                *)
(***************************************************************************)
C3_ConflictFailsMerge ==
  (op = "layout" /\ SameSetConflicts # {}) =>
    /\ result.kind = "Err"
    /\ <<result.error.index, result.error.binding>> \in SameSetConflicts

(***************************************************************************)
(* C4: a successful merge loses no binding: every binding of either stage  *)
(* has an identical binding in the merged layout.                          *)
(***************************************************************************)
C4_NoBindingLost ==
  Merged =>
    \A p \in 1..2 :
      \A s \in 1..Len(args[p].descriptor_sets) :
        \A i \in 1..Len(args[p].descriptor_sets[s]) :
          Copies(MergedBindings, args[p].descriptor_sets[s][i]) # {}

(***************************************************************************)
(* C5: a set index the first stage has and the second stage lacks keeps    *)
(* exactly the first stage's bindings of that set, in order.               *)
(***************************************************************************)
C5_UnmatchedSetPassesThrough ==
  Merged =>
    \A s \in 1..Len(args[1].descriptor_sets) :
      s > Len(args[2].descriptor_sets)
        => /\ s <= Len(result.value.sets)
           /\ result.value.sets[s].bindings = args[1].descriptor_sets[s]

\* no descriptor set of either stage is empty
NoEmptyInputSet ==
  \A p \in 1..2 : \A s \in 1..Len(args[p].descriptor_sets) :
    args[p].descriptor_sets[s] # <<>>

(***************************************************************************)
(* C6: no set of a successfully merged layout is empty, already when no    *)
(* set of the two stages is.                                               *)
(***************************************************************************)
C6_NoEmptySet ==
  (Merged /\ NoEmptyInputSet) =>
    \A s \in 1..Len(result.value.sets) : result.value.sets[s].bindings # <<>>

(***************************************************************************)
(* C7: the push-constant ranges of a layout are the concatenation, in      *)
(* stage order, of the push-constant ranges of the stages it was built     *)
(* from.                                                                   *)
(***************************************************************************)
C7_PushConstantsConcatenated ==
  (op \in {"layout", "description_layout"} /\ result.kind = "Ok") =>
    result.value.push_constants
      = Concat([p \in 1..Len(args) |-> args[p].push_constants])

\* the attribute elements and stride a stage description reports
ElementsOf(description) ==
  <<[i \in 1..Len(description.input_attributes) |->
       description.input_attributes[i].element], 0>>

\* the positions (1 or 2) of the pair that hold a vertex stage
VertexStages == {p \in 1..2 : args[p].stage_flag = VERTEX}

(***************************************************************************)
(* C8: the attributes of a pair are those of a vertex stage of the pair,   *)
(* in whichever position it is; with no vertex stage the call panics and   *)
(* returns no attribute list.                                              *)
(***************************************************************************)
C8_AttributesOfVertexStage ==
  op = "attributes" =>
    IF VertexStages = {}
      THEN result.kind = "Panic"
      ELSE /\ result.kind = "Value"
           /\ \E p \in VertexStages : result.value = ElementsOf(args[p])

\* the second stage alone is the vertex stage and its attributes, which are
\* not the first stage's, are returned
C8_Witness ==
  /\ op = "attributes"
  /\ VertexStages = {2}
  /\ ElementsOf(args[1]) # ElementsOf(args[2])
  /\ args[2].input_attributes # <<>>
  /\ result = Value(ElementsOf(args[2]))

\* the layout of merging the first two stages and then the third into that
FoldedLayout ==
  LET intermediate == PairLayout(args[1], args[2])
  IN IF intermediate.kind = "Ok"
       THEN MergeLayouts(intermediate.value, SingleLayout(args[3]).value)
       ELSE intermediate

(***************************************************************************)
(* C9: merging the sequence A, B, C of conflict-free stages yields the     *)
(* layout of merging (A, B) and then C into that, and every stage of the   *)
(* sequence has its bindings in the result.                                *)
(***************************************************************************)
C9_SequenceMergeIsFold ==
  (/\ op \in {"merge_descriptor_sets", "merge_layout"}
   /\ Len(args) = 3
   /\ FoldedLayout.kind = "Ok") =>
    /\ result = FoldedLayout
    /\ \A p \in 1..3 :
         \A s \in 1..Len(args[p].descriptor_sets) :
           \A i \in 1..Len(args[p].descriptor_sets[s]) :
             Copies(MergedBindings, args[p].descriptor_sets[s][i]) # {}

TableKind(flags, signedness) ==
  IF "INT" \in flags
    THEN IF signedness = 1 THEN "Int" ELSE IF signedness = 0 THEN "Uint" ELSE "none"
    ELSE IF "FLOAT" \in flags THEN "Float" ELSE "none"

\* the widths the decision table has for a numeric kind
TableWidths(kind) == IF kind = "Float" THEN {32, 64} ELSE {8, 16, 32, 64}

\* the name of the format of n components (1 to 4) of a kind and width
FormatName(n, width, kind) ==
  (CASE n = 1 -> "R" [] n = 2 -> "Rg" [] n = 3 -> "Rgb" [] n = 4 -> "Rgba")
    \o ToString(width) \o kind

(***************************************************************************)
(* C14: type_element_format follows the decision table: an error without   *)
(* INT or FLOAT flag (or with a signedness that is neither 0 nor 1), for a *)
(* width outside the kind's widths and for more than 4 components; else    *)
(* the format of that kind and width with 1 component for a count of at    *)
(* most 1 and with exactly 2, 3 or 4 components for those counts.          *)
(***************************************************************************)
C14_FormatDecisionTable ==
  op = "type_element_format" =>
    LET kind == TableKind(args[1], args[2].numeric.scalar.signedness)
        width == args[2].numeric.scalar.width
        count == args[2].numeric.vector.component_count
    IN IF kind = "none" \/ width \notin TableWidths(kind) \/ count > 4
         THEN result.kind = "Err"
         ELSE result = Ok(FormatName(IF count <= 1 THEN 1 ELSE count, width, kind))

\* a 32-bit float type of 4 components maps to Rgba32Float
C14_Witness ==
  /\ op = "type_element_format"
  /\ "FLOAT" \in args[1] /\ "INT" \notin args[1]
  /\ args[2].numeric.scalar.width = 32
  /\ args[2].numeric.vector.component_count = 4
  /\ result = Ok("Rgba32Float")

\* the locations an interface variable occupies: its declared location, or
\* one location per element of its first array dimension from there on
LocationsOf(variable) ==
  IF variable.array.dims = <<>>
    THEN <<variable.location>>
    ELSE [n \in 1..variable.array.dims[1] |-> variable.location + n - 1]

\* a successful generate_attributes call
Generated == op = "generate_attributes" /\ result.kind = "Ok"

(***************************************************************************)
(* C15: the attribute builder emits, variable by variable in enumeration   *)
(* order, one descriptor at the declared location L of a variable without  *)
(* array dimensions and one descriptor at each of L, L+1, ..., L+d-1 for   *)
(* a variable whose first dimension is d.                                  *)
(***************************************************************************)
C15_LocationsInEnumerationOrder ==
  Generated =>
    [i \in 1..Len(result.value) |-> result.value[i].location]
      = Concat([v \in 1..Len(args[1]) |-> LocationsOf(args[1][v])])

\* an array of 3 at location 1 followed by a variable at location 0 gives
\* the locations 1, 2, 3, 0
C15_Witness ==
  /\ Generated
  /\ Len(args[1]) = 2
  /\ args[1][1].location = 1 /\ args[1][1].array.dims = <<3>>
  /\ args[1][2].location = 0 /\ args[1][2].array.dims = <<>>
  /\ [i \in 1..Len(result.value) |-> result.value[i].location] = <<1, 2, 3, 0>>

(***************************************************************************)
(* C17: every descriptor the attribute builder produces has its binding    *)
(* equal to its location and a zero element offset, the descriptors of an  *)
(* expanded array variable included.                                       *)
(***************************************************************************)
C17_BindingMirrorsLocation ==
  Generated =>
    \A i \in 1..Len(result.value) :
      /\ result.value[i].binding = result.value[i].location
      /\ result.value[i].element.offset = 0

(***************************************************************************)
(* C18: the range converted from a push-constant block with offset o and   *)
(* size s is well-formed: its start is not greater than its end, and both  *)
(* ends are in one unit, bytes or 4-byte words, so that the range begins   *)
(* at the offset of the block and spans its size.                          *)
(***************************************************************************)
C18_PushConstantRangeWellFormed ==
  op = "convert_push_constant" =>
    LET range == result.value[2]
        o == args[2].offset
        s == args[2].size
    IN /\ result.kind = "Ok"
       /\ range.start <= range.end
       /\ \/ range.start = o /\ range.end = o + s
          \/ range.start = o \div 4 /\ range.end = (o \div 4) + (s \div 4)

\* a successful reflection of a module
Reflected == op = "from_bytes" /\ result.kind = "Ok"

(***************************************************************************)
(* C12: after a successful reflection of a module every binding of every   *)
(* produced descriptor set has its stage mask equal to the stage flag of   *)
(* the description, which is the converted stage of the module, whatever   *)
(* the per-binding conversion assigned.                                    *)
(***************************************************************************)
C12_BindingsCarryModuleStage ==
  Reflected =>
    /\ result.value.stage_flag = convert_stage(args[1].shader_stage)
    /\ \A i \in 1..Len(result.value.descriptor_sets) :
         \A j \in 1..Len(result.value.descriptor_sets[i]) :
           result.value.descriptor_sets[i][j].stage_flags = result.value.stage_flag

\* a fragment module with two sets of one binding each: both bindings carry
\* FRAGMENT, not the VERTEX of the per-binding conversion
C12_Witness ==
  /\ Reflected
  /\ args[1].shader_stage = {"FRAGMENT"}
  /\ Len(result.value.descriptor_sets) = 2
  /\ \A i \in 1..2 :
       /\ Len(result.value.descriptor_sets[i]) = 1
       /\ result.value.descriptor_sets[i][1].stage_flags = FRAGMENT
       /\ ReflectBinding(args[1].descriptor_sets.value[i].bindings[1]).value.stage_flags
            = VERTEX

(***************************************************************************)
(* C13: the input attributes of the reflected description are built from   *)
(* the enumerated input variables of the module and its output attributes  *)
(* from the enumerated output variables; the case is a module whose input  *)
(* and output variable lists differ and whose output variables all have a  *)
(* format.                                                                 *)
(***************************************************************************)
C13_OutputAttributesFromOutputs ==
  (/\ Reflected
   /\ args[1].output_variables.kind = "Ok"
   /\ generate_attributes(args[1].output_variables.value).kind = "Ok"
   /\ args[1].output_variables # args[1].input_variables)
    => /\ Ok(result.value.input_attributes)
            = generate_attributes(args[1].input_variables.value)
       /\ Ok(result.value.output_attributes)
            = generate_attributes(args[1].output_variables.value)

\* the (set of the first stage, set of the second stage) pairs, both from 1
\* and different, that hold bindings of one binding index and different kinds
CrossSetConflicts ==
  {x \in (1..Len(args[1].descriptor_sets)) \X (1..Len(args[2].descriptor_sets)) :
     /\ x[1] # x[2]
     /\ \E i \in 1..Len(args[1].descriptor_sets[x[1]]),
           k \in 1..Len(args[2].descriptor_sets[x[2]]) :
          /\ args[1].descriptor_sets[x[1]][i].binding
               = args[2].descriptor_sets[x[2]][k].binding
          /\ args[1].descriptor_sets[x[1]][i].ty
               # args[2].descriptor_sets[x[2]][k].ty}

(***************************************************************************)
(* C16: the pairwise merge classifies only pairs of bindings at the same   *)
(* set index: when the only bindings that share a binding index and differ *)
(* in kind sit at different set indices of the two stages, the merge does  *)
(* not fail.                                                               *)
(***************************************************************************)
C16_CrossSetPairsNotClassified ==
  (op = "layout" /\ CrossSetConflicts # {} /\ SameSetConflicts = {}) =>
    result.kind = "Ok"

====
